---- MODULE Spec2Model ----
\* Model of the wasmer host-embedding layer: Instance construction, the export
\* bridge (exported-function wrappers, exported memory), import materialization
\* and the Close/Clean lifecycle of foreign handles.
\*   src/wasmer/instance.go          constructors, Instance methods, errors
\*   src/wasmer/instance_helpers.go  generateWasmerImports, retrieveExported*,
\*                                   createExportedFunctionWrapper
\* The execution engine is an external collaborator: every engine primitive is a
\* nondeterministic choice over the results it can report. Functions of the
\* package that live in other files (Imports.Close, the validation and coercion
\* of arguments, the conversion of outputs) follow their documented contract.
\* A behaviour follows the host registry, at most one ImportObject, and one
\* constructor call with the Instance it returns.
EXTENDS Integers, Sequences, FiniteSets, TLC

\* ------------------------------------------------------------------ bounds
MaxExports == 2
MaxArgs == 1
MaxImports == 1
MaxCloses == 2

\* ------------------------------------------------------- program constants
NULL == 0

cWasmerOk == "WASMER_OK"
cWasmerError == "WASMER_ERROR"

cWasmFunction == "function"
cWasmMemory == "memory"
cWasmOther == "other"

\* ---------------------------------------------------------------- universes
ExportNames == {"f", "g"}
ValueKinds == {"i32", "f64"}
HostTypes == {"int32", "float64", "string"}

\* The function exports a module may declare: a name stands for one signature.
FunctionSignatures ==
    {[name |-> "f", inputs |-> <<>>, outArity |-> 0],
     [name |-> "g", inputs |-> <<"i32">>, outArity |-> 1]}

\* Engine last-error strings, module byte lengths, metering points, context pointers.
LastErrors == {"detail"}
ByteLengths == {0, 1}
Points == {0, 1}
ContextPointers == {NULL, 1}

\* One entry of the engine's export table. `funcOK` is the engine's answer to the
\* signature/arity queries of a function export, `memOK` its answer to
\* cWasmerExportToMemory. Fields that a kind does not use hold one fixed value.
FunctionEntries ==
    {[kind |-> cWasmFunction, name |-> sig.name, inputs |-> sig.inputs,
      outArity |-> sig.outArity, funcOK |-> ok, memOK |-> TRUE] :
        sig \in FunctionSignatures, ok \in BOOLEAN}

MemoryEntries ==
    [kind : {cWasmMemory}, name : {"f"}, inputs : {<<>>},
     outArity : {0}, funcOK : {TRUE}, memOK : BOOLEAN]

OtherEntries ==
    [kind : {cWasmOther}, name : {"f"}, inputs : {<<>>},
     outArity : {0}, funcOK : {TRUE}, memOK : {TRUE}]

ExportEntries == FunctionEntries \cup MemoryEntries \cup OtherEntries

ExportTables == UNION {[1..n -> ExportEntries] : n \in 0..MaxExports}

ArgumentLists == UNION {[1..n -> HostTypes] : n \in 0..MaxArgs}

VARIABLES
    imports,        \* host Imports registry: cached importedFunctionPointer per ImportFunction
    importFuncs,    \* engine: one entry per import function handle ever created
    importObject,   \* the ImportObject built by NewImportObject (or the empty one)
    engine,         \* engine: one entry per instance handle ever created
    results,        \* what the constructor call gave back to the host (at most one call)
    closes,         \* number of Close and of Clean calls made so far
    last            \* observation of the last host operation

vars == <<imports, importFuncs, importObject, engine, results, closes, last>>

\* ------------------------------------------------------------ error values
NoError == [type |-> "nil"]

\* fmt.Sprintf with one %s verb: a message is the sequence of its pieces.
Sprintf(format, arg) ==
    [i \in 1..Len(format) |-> IF format[i] = "%s" THEN arg ELSE format[i]]

InstantiateFormat == <<"Failed to instantiate the module:\n    ", "%s">>
ImportObjectFormat == <<"Failed to create cached imports: ", "%s">>
\* The backquote character of the Go literal is written as the piece Backquote.
Backquote == "<backquote>"
CallFormat == <<"Failed to call the ", Backquote, "%s", Backquote, " exported function.">>
MemoryMessage == <<"Failed to extract the exported memory.">>

NewInstanceError(message) == [type |-> "InstanceError", text |-> message]

NewExportedFunctionError(functionName, message) ==
    [type |-> "ExportedFunctionError", functionName |-> functionName, message |-> message]

\* Faulty variant of ErrorText: Error() returns the stored message without formatting the
\* function name into it.
ErrorText_Unformatted(err) ==
    IF err = NoError THEN <<>>
    ELSE IF err.type = "ExportedFunctionError" THEN err.message
    ELSE err.text

\* The Error() method of the error values.
ErrorText(err) ==
    IF err = NoError THEN <<>>
    ELSE IF err.type = "ExportedFunctionError" THEN Sprintf(err.message, err.functionName)
    ELSE err.text

\* The message built on a failed instantiation: lastError is the engine's
\* answer of GetLastError.
FailureMessage(format, lastError) ==
    IF lastError.err THEN Sprintf(format, "(unknown details)")
    ELSE Sprintf(format, lastError.text)

\* GetLastError: the engine's last-error string, or an error when there is none.
NoLastError == [err |-> TRUE, text |-> ""]
GetLastErrorResults == {NoLastError} \cup {[err |-> FALSE, text |-> e] : e \in LastErrors}

\* ------------------------------------------------------------------ values
void == [kind |-> "void"]

\* ---------------------------------------------------------------- Instance
EmptyMap == [k \in {} |-> NULL]
NilExports == [isNil |-> TRUE, map |-> EmptyMap]

emptyInstance == [instance |-> NULL, imports |-> "nil", Exports |-> NilExports, Memory |-> NULL]

HasMemory(instance) == NULL # instance.Memory

\* ------------------------------------------------------------------ imports
\* The engine's record of one import function handle: how often it was destroyed.
NewImportFunc == [destroys |-> 0]

\* cWasmerImportFuncNew is called for every ImportFunction of the registry and its
\* result is assigned to importedFunctionPointer, whatever that field held before.
generateWasmerImports(imps, funcs) ==
    LET numberOfImports == Len(imps)
        created == [k \in 1..numberOfImports |-> Len(funcs) + k]
    IN  [imports |-> created,
         importFuncs |-> funcs \o [k \in 1..numberOfImports |-> NewImportFunc],
         wasmImports |-> created,
         numberOfImports |-> numberOfImports]

\* Imports.Close: destroys every materialized function handle the registry holds
\* and forgets it, so that a second Close releases nothing.
ImportsClose(imps, funcs) ==
    LET held == {imps[k] : k \in 1..Len(imps)} \ {NULL}
    IN  [imports |-> [k \in 1..Len(imps) |-> NULL],
         importFuncs |-> [h \in 1..Len(funcs) |->
                            IF h \in held THEN [destroys |-> funcs[h].destroys + 1]
                            ELSE funcs[h]],
         released |-> Cardinality(held)]

\* ------------------------------------------------------------ export bridge
SignatureMessage == <<"Failed to read the signature of the ", Backquote, "%s", Backquote, " exported function.">>

\* createExportedFunctionWrapper, up to the closure it returns: the closure
\* captures the instance handle, the function reference (its position in the
\* export table), the name, and the signature the engine reported.
createExportedFunctionWrapper(c_instance, table, nth, exportedFunctionName) ==
    IF ~table[nth].funcOK
    THEN [wrapper |-> NULL, err |-> NewExportedFunctionError(exportedFunctionName, SignatureMessage)]
    ELSE [wrapper |-> [c_instance |-> c_instance,
                       wasmFunction |-> nth,
                       exportedFunctionName |-> exportedFunctionName,
                       wasmFunctionInputSignatures |-> table[nth].inputs,
                       wasmFunctionInputsArity |-> Len(table[nth].inputs),
                       wasmFunctionOutputsArity |-> table[nth].outArity],
          err |-> NoError]

\* Faulty variant of MapPut: an existing key keeps its value.
MapPut_KeepFirst(m, key, value) ==
    [k \in (DOMAIN m) \cup {key} |-> IF k \in DOMAIN m THEN m[k] ELSE value]

\* exports[exportedFunctionName] = wrappedWasmFunction on a Go map.
MapPut(m, key, value) ==
    [k \in (DOMAIN m) \cup {key} |-> IF k = key THEN value ELSE m[k]]

RECURSIVE retrieveExportedFunctionsFrom(_, _, _, _)
retrieveExportedFunctionsFrom(c_instance, table, nth, exports) ==
    IF nth > Len(table) THEN [exports |-> [isNil |-> FALSE, map |-> exports], err |-> NoError]
    ELSE IF table[nth].kind # cWasmFunction
    THEN retrieveExportedFunctionsFrom(c_instance, table, nth + 1, exports)
    ELSE LET made == createExportedFunctionWrapper(c_instance, table, nth, table[nth].name)
         IN  IF made.err # NoError
             THEN [exports |-> NilExports, err |-> made.err]
             ELSE retrieveExportedFunctionsFrom(c_instance, table, nth + 1,
                      MapPut(exports, table[nth].name, made.wrapper))

retrieveExportedFunctions(c_instance, table) ==
    retrieveExportedFunctionsFrom(c_instance, table, 1, EmptyMap)

\* newMemory(wasmMemory): the Memory wraps the handle of the nth export.
newMemory(nth) == nth

\* Faulty variant of retrieveExportedMemoryFrom: the loop stops at the first memory export.
retrieveExportedMemoryFrom_First(table, nth, memory, hasMemory) ==
    LET memories == {n \in nth..Len(table) : table[n].kind = cWasmMemory}
        first == CHOOSE n \in memories : \A o \in memories : n <= o
    IN  IF memories = {} THEN [memory |-> memory, hasMemory |-> hasMemory, err |-> NoError]
        ELSE IF ~table[first].memOK
        THEN [memory |-> NULL, hasMemory |-> FALSE, err |-> NewInstanceError(MemoryMessage)]
        ELSE [memory |-> newMemory(first), hasMemory |-> TRUE, err |-> NoError]

RECURSIVE retrieveExportedMemoryFrom(_, _, _, _)
retrieveExportedMemoryFrom(table, nth, memory, hasMemory) ==
    IF nth > Len(table) THEN [memory |-> memory, hasMemory |-> hasMemory, err |-> NoError]
    ELSE IF table[nth].kind = cWasmMemory
    THEN IF ~table[nth].memOK
         THEN [memory |-> NULL, hasMemory |-> FALSE, err |-> NewInstanceError(MemoryMessage)]
         ELSE retrieveExportedMemoryFrom(table, nth + 1, newMemory(nth), TRUE)
    ELSE retrieveExportedMemoryFrom(table, nth + 1, memory, hasMemory)

retrieveExportedMemory(table) == retrieveExportedMemoryFrom(table, 1, NULL, FALSE)

\* Faulty variant of newInstanceWithImports: the memory error path returns the instance
\* it had built so far together with the error.
newInstanceWithImports_Partial(c_instance, imps, table) ==
    LET functions == retrieveExportedFunctions(c_instance, table)
        mem == retrieveExportedMemory(table)
    IN  IF functions.err # NoError
        THEN [instance |-> emptyInstance, err |-> functions.err,
              exportsDestroys |-> 1, instanceDestroys |-> 0]
        ELSE [instance |-> [instance |-> c_instance, imports |-> imps,
                            Exports |-> functions.exports, Memory |-> mem.memory],
              err |-> mem.err, exportsDestroys |-> 1, instanceDestroys |-> 0]

\* The shared post-instantiation step. exportsDestroys counts the deferred
\* cWasmerExportsDestroy; instanceDestroys the cWasmerInstanceDestroy calls made
\* before returning.
newInstanceWithImports(c_instance, imps, table) ==
    LET functions == retrieveExportedFunctions(c_instance, table)
        mem == retrieveExportedMemory(table)
    IN  IF functions.err # NoError
        THEN [instance |-> emptyInstance, err |-> functions.err,
              exportsDestroys |-> 1, instanceDestroys |-> 0]
        ELSE IF mem.err # NoError
        THEN [instance |-> emptyInstance, err |-> mem.err,
              exportsDestroys |-> 1, instanceDestroys |-> 0]
        ELSE IF mem.hasMemory = FALSE
        THEN [instance |-> [instance |-> c_instance, imports |-> imps,
                            Exports |-> functions.exports, Memory |-> NULL],
              err |-> NoError, exportsDestroys |-> 1, instanceDestroys |-> 0]
        ELSE [instance |-> [instance |-> c_instance, imports |-> imps,
                            Exports |-> functions.exports, Memory |-> mem.memory],
              err |-> NoError, exportsDestroys |-> 1, instanceDestroys |-> 0]

\* ------------------------------------------------------------------- state
NoImportObject == [built |-> "no", imports |-> "nil", c_import_object |-> NULL, funcs |-> {}]

NoObservation ==
    [op |-> "none", inst |-> 0, name |-> "", args |-> <<>>, value |-> void, err |-> NoError,
     engineCalled |-> FALSE, converted |-> FALSE, status |-> "",
     destroyCalls |-> 0, importReleases |-> 0, answer |-> 0]

Init ==
    /\ imports \in UNION {[1..n -> {NULL}] : n \in 0..MaxImports}
    /\ importFuncs = <<>>
    /\ importObject = NoImportObject
    /\ engine = <<>>
    /\ results = <<>>
    /\ closes = [Close |-> 0, Clean |-> 0]
    /\ last = NoObservation

\* What the engine can answer to an instantiate primitive.
InstantiateResults ==
    [status : {cWasmerError}, lastError : GetLastErrorResults, table : {<<>>}]
    \cup [status : {cWasmerOk}, lastError : {NoLastError}, table : ExportTables]

NewEngineInstance(table, metered, made) ==
    [table |-> table, metered |-> metered, pointsUsed |-> 0,
     destroys |-> made.instanceDestroys, exportsDestroys |-> made.exportsDestroys]

\* The failure branch shared, line for line, by the three instantiating constructors.
InstantiationFailure(lastError) ==
    [instance |-> emptyInstance,
     err |-> NewInstanceError(FailureMessage(InstantiateFormat, lastError))]

\* The record of a constructor call: how it ended, what it returned, the handle
\* the engine gave it, and the engine's verdict on the module bytes.
Panicked(ctor, answer) ==
    [ctor |-> ctor, outcome |-> "panicked", instance |-> emptyInstance, err |-> NoError,
     c_instance |-> NULL, status |-> answer.status, lastError |-> answer.lastError]

Returned(ctor, made, c_instance, answer) ==
    [ctor |-> ctor, outcome |-> "returned", instance |-> made.instance, err |-> made.err,
     c_instance |-> c_instance, status |-> answer.status, lastError |-> answer.lastError]

Observe(op) == [NoObservation EXCEPT !.op = op, !.inst = Len(results) + 1]

\* The part of a constructor that follows the materialization of its imports:
\* &bytes[0] (a run-time panic on an empty slice), the engine's instantiate
\* primitive, then either the failure branch or newInstanceWithImports.
Instantiate(ctor, bytesLen, answer, imps, metered) ==
    IF bytesLen = 0
    THEN /\ results' = Append(results, Panicked(ctor, answer))
         /\ engine' = engine
    ELSE IF answer.status # cWasmerOk
    THEN /\ results' = Append(results, Returned(ctor, InstantiationFailure(answer.lastError), NULL, answer))
         /\ engine' = engine
    ELSE LET c_instance == Len(engine) + 1
             made == newInstanceWithImports(c_instance, imps, answer.table)
         IN  /\ results' = Append(results, Returned(ctor, made, c_instance, answer))
             /\ engine' = Append(engine, NewEngineInstance(answer.table, metered, made))

NewInstanceWithImports ==
    /\ results = <<>>
    /\ LET gen == generateWasmerImports(imports, importFuncs)
       IN  /\ imports' = gen.imports
           /\ importFuncs' = gen.importFuncs
    /\ \E bytesLen \in ByteLengths, answer \in InstantiateResults :
           Instantiate("NewInstanceWithImports", bytesLen, answer, "host", FALSE)
    /\ last' = Observe("NewInstanceWithImports")
    /\ UNCHANGED <<importObject, closes>>

\* NewInstance: NewInstanceWithImports(bytes, NewImports()); the fresh registry
\* holds no import function, so its materialization creates no handle.
NewInstance ==
    /\ results = <<>>
    /\ \E bytesLen \in ByteLengths, answer \in InstantiateResults :
           Instantiate("NewInstance", bytesLen, answer, "fresh", FALSE)
    /\ last' = Observe("NewInstance")
    /\ UNCHANGED <<imports, importFuncs, importObject, closes>>

NewMeteredInstanceWithImports ==
    /\ results = <<>>
    /\ LET gen == generateWasmerImports(imports, importFuncs)
       IN  /\ imports' = gen.imports
           /\ importFuncs' = gen.importFuncs
    /\ \E bytesLen \in ByteLengths, answer \in InstantiateResults :
           Instantiate("NewMeteredInstanceWithImports", bytesLen, answer, "host", TRUE)
    /\ last' = Observe("NewMeteredInstanceWithImports")
    /\ UNCHANGED <<importObject, closes>>

\* The caller passes an ImportObject that NewImportObject built successfully.
NewMeteredInstanceWithImportObject ==
    /\ results = <<>>
    /\ importObject.built = "ok"
    /\ \E bytesLen \in ByteLengths, answer \in InstantiateResults :
           Instantiate("NewMeteredInstanceWithImportObject", bytesLen, answer,
                       importObject.imports, TRUE)
    /\ last' = Observe("NewMeteredInstanceWithImportObject")
    /\ UNCHANGED <<imports, importFuncs, importObject, closes>>

NewImportObject ==
    /\ importObject.built = "no"
    /\ \E status \in {cWasmerOk, cWasmerError}, lastError \in GetLastErrorResults :
       LET gen == generateWasmerImports(imports, importFuncs)
       IN  /\ imports' = gen.imports
           /\ importFuncs' = gen.importFuncs
           /\ IF status # cWasmerOk
              THEN /\ importObject' = [built |-> "failed", imports |-> "nil",
                                       c_import_object |-> NULL, funcs |-> {}]
                   /\ last' = [NoObservation EXCEPT !.op = "NewImportObject",
                                  !.err = [type |-> "error",
                                           text |-> FailureMessage(ImportObjectFormat, lastError)]]
              ELSE /\ importObject' = [built |-> "ok", imports |-> "host",
                                       c_import_object |-> 1,
                                       funcs |-> {gen.wasmImports[k] : k \in 1..gen.numberOfImports}]
                   /\ last' = [NoObservation EXCEPT !.op = "NewImportObject"]
    /\ UNCHANGED <<engine, results, closes>>

\* ------------------------------------------------- exported-function wrapper
ArityMessage(given, expected) ==
    <<"Wrong number of arguments for the ", Backquote, "%s", Backquote,
      " exported function: given ", ToString(given), ", expected ", ToString(expected), ".">>

validateGivenArguments(exportedFunctionName, arguments, arity) ==
    IF Len(arguments) # arity
    THEN NewExportedFunctionError(exportedFunctionName, ArityMessage(Len(arguments), arity))
    ELSE NoError

\* The value kind a host type converts to; "none" when the type is not accepted.
KindOfHostType(hostType) ==
    CASE hostType = "int32" -> "i32"
      [] hostType = "float64" -> "f64"
      [] OTHER -> "none"

TypeMessage(nth, hostType) ==
    <<"Argument ", ToString(nth), " of the ", Backquote, "%s", Backquote,
      " exported function cannot be converted from ", hostType, ".">>

\* Position of the first argument that does not convert to the kind declared at
\* its position, 0 when every argument converts.
RECURSIVE FirstBadArgument(_, _, _)
FirstBadArgument(arguments, signatures, nth) ==
    IF nth > Len(signatures) THEN 0
    ELSE IF KindOfHostType(arguments[nth]) # signatures[nth] THEN nth
    ELSE FirstBadArgument(arguments, signatures, nth + 1)

createWasmInputsFromArguments(arguments, arity, signatures, exportedFunctionName) ==
    LET bad == FirstBadArgument(arguments, signatures, 1)
    IN  IF bad # 0
        THEN [wasmInputs |-> <<>>,
              err |-> NewExportedFunctionError(exportedFunctionName,
                                               TypeMessage(bad, arguments[bad]))]
        ELSE [wasmInputs |-> [nth \in 1..arity |-> [kind |-> signatures[nth]]],
              err |-> NoError]

convertWasmOutputToValue(outputsArity, wasmOutputs, exportedFunctionName) ==
    IF outputsArity = 0 THEN [value |-> void, err |-> NoError]
    ELSE [value |-> wasmOutputs[1], err |-> NoError]

\* What the engine can answer to its call primitive.
CallResults ==
    {[status |-> cWasmerError, outputs |-> <<>>]}
    \cup {[status |-> cWasmerOk, outputs |-> <<[kind |-> k]>>] : k \in ValueKinds}

\* Faulty variant of wrapper: the engine is called before the arguments are validated.
wrapper_EngineFirst(w, arguments, answer) ==
    LET invalid == validateGivenArguments(w.exportedFunctionName, arguments,
                                          w.wasmFunctionInputsArity)
        inputs == createWasmInputsFromArguments(arguments, w.wasmFunctionInputsArity,
                      w.wasmFunctionInputSignatures, w.exportedFunctionName)
        out == convertWasmOutputToValue(w.wasmFunctionOutputsArity, answer.outputs,
                                        w.exportedFunctionName)
    IN  IF invalid # NoError
        THEN [value |-> void, err |-> invalid, engineCalled |-> TRUE, converted |-> FALSE]
        ELSE IF inputs.err # NoError
        THEN [value |-> void, err |-> inputs.err, engineCalled |-> TRUE, converted |-> FALSE]
        ELSE IF answer.status # cWasmerOk
        THEN [value |-> void,
              err |-> NewExportedFunctionError(w.exportedFunctionName, CallFormat),
              engineCalled |-> TRUE, converted |-> FALSE]
        ELSE [value |-> out.value, err |-> out.err, engineCalled |-> TRUE, converted |-> TRUE]

\* The closure built by createExportedFunctionWrapper. engineCalled and converted
\* record whether callWasmFunction and convertWasmOutputToValue were reached; the
\* observation of a call keeps the engine's status only when the engine was called.
wrapper(w, arguments, answer) ==
    LET invalid == validateGivenArguments(w.exportedFunctionName, arguments,
                                          w.wasmFunctionInputsArity)
    IN  IF invalid # NoError
        THEN [value |-> void, err |-> invalid, engineCalled |-> FALSE, converted |-> FALSE]
        ELSE LET inputs == createWasmInputsFromArguments(arguments, w.wasmFunctionInputsArity,
                               w.wasmFunctionInputSignatures, w.exportedFunctionName)
             IN  IF inputs.err # NoError
                 THEN [value |-> void, err |-> inputs.err,
                       engineCalled |-> FALSE, converted |-> FALSE]
                 ELSE IF answer.status # cWasmerOk
                 THEN [value |-> void,
                       err |-> NewExportedFunctionError(w.exportedFunctionName, CallFormat),
                       engineCalled |-> TRUE, converted |-> FALSE]
                 ELSE LET out == convertWasmOutputToValue(w.wasmFunctionOutputsArity,
                                     answer.outputs, w.exportedFunctionName)
                      IN  [value |-> out.value, err |-> out.err,
                           engineCalled |-> TRUE, converted |-> TRUE]

HasReturned(i) == i \in 1..Len(results) /\ results[i].outcome = "returned"

\* A handle the host may still use: created and never destroyed.
Usable(i) ==
    /\ HasReturned(i)
    /\ results[i].instance.instance # NULL
    /\ engine[results[i].instance.instance].destroys = 0

\* instance.Exports[name](arguments...) on an instance that was not closed. A
\* metered engine charges the call: its points only grow.
ExportedCall(i, name) ==
    /\ HasReturned(i)
    /\ name \in DOMAIN results[i].instance.Exports.map
    /\ engine[results[i].instance.Exports.map[name].c_instance].destroys = 0
    /\ \E arguments \in ArgumentLists, answer \in CallResults :
       LET w == results[i].instance.Exports.map[name]
           r == wrapper(w, arguments, answer)
           e == engine[w.c_instance]
       IN  /\ last' = [NoObservation EXCEPT !.op = "ExportedCall", !.inst = i, !.name = name,
                          !.args = arguments, !.value = r.value, !.err = r.err,
                          !.engineCalled = r.engineCalled, !.converted = r.converted,
                          !.status = IF r.engineCalled THEN answer.status ELSE ""]
           /\ IF r.engineCalled /\ e.metered
              THEN \E points \in {p \in Points : p >= e.pointsUsed} :
                       engine' = [engine EXCEPT ![w.c_instance].pointsUsed = points]
              ELSE engine' = engine
    /\ UNCHANGED <<imports, importFuncs, importObject, results, closes>>

\* ---------------------------------------------------------- Instance methods
HasMemoryCall(i) ==
    /\ HasReturned(i)
    /\ last' = [NoObservation EXCEPT !.op = "HasMemory", !.inst = i,
                   !.answer = IF HasMemory(results[i].instance) THEN 1 ELSE 0]
    /\ UNCHANGED <<imports, importFuncs, importObject, engine, results, closes>>

\* The pointer is handed to the engine, which keeps it for the import callbacks;
\* nothing of this layer holds it.
SetContextData(i, data) ==
    /\ Usable(i)
    /\ last' = [NoObservation EXCEPT !.op = "SetContextData", !.inst = i, !.answer = data]
    /\ UNCHANGED <<imports, importFuncs, importObject, engine, results, closes>>

GetPointsUsed(i) ==
    /\ Usable(i)
    /\ last' = [NoObservation EXCEPT !.op = "GetPointsUsed", !.inst = i,
                   !.answer = engine[results[i].instance.instance].pointsUsed]
    /\ UNCHANGED <<imports, importFuncs, importObject, engine, results, closes>>

SetPointsUsed(i, points) ==
    /\ Usable(i)
    /\ engine' = [engine EXCEPT ![results[i].instance.instance].pointsUsed = points]
    /\ last' = [NoObservation EXCEPT !.op = "SetPointsUsed", !.inst = i]
    /\ UNCHANGED <<imports, importFuncs, importObject, results, closes>>

\* cWasmerInstanceDestroy(instance.instance) when the handle is not nil.
DestroyInstance(instance, eng) ==
    IF instance.instance # NULL
    THEN [engine |-> [eng EXCEPT ![instance.instance].destroys = @ + 1], destroyCalls |-> 1]
    ELSE [engine |-> eng, destroyCalls |-> 0]

\* instance.imports.Close() when the imports are not nil. The registry that
\* NewInstance made holds no import function.
CloseImports(instance, imps, funcs) ==
    IF instance.imports = "host" THEN ImportsClose(imps, funcs)
    ELSE [imports |-> imps, importFuncs |-> funcs, released |-> 0]

Close(i) ==
    /\ HasReturned(i)
    /\ closes.Close + closes.Clean < MaxCloses
    /\ LET closed == CloseImports(results[i].instance, imports, importFuncs)
           destroyed == DestroyInstance(results[i].instance, engine)
       IN  /\ imports' = closed.imports
           /\ importFuncs' = closed.importFuncs
           /\ engine' = destroyed.engine
           /\ last' = [NoObservation EXCEPT !.op = "Close", !.inst = i,
                          !.destroyCalls = destroyed.destroyCalls,
                          !.importReleases = closed.released]
    /\ closes' = [closes EXCEPT !.Close = @ + 1]
    /\ UNCHANGED <<importObject, results>>

Clean(i) ==
    /\ HasReturned(i)
    /\ closes.Close + closes.Clean < MaxCloses
    /\ LET destroyed == DestroyInstance(results[i].instance, engine)
       IN  /\ engine' = destroyed.engine
           /\ last' = [NoObservation EXCEPT !.op = "Clean", !.inst = i,
                          !.destroyCalls = destroyed.destroyCalls]
    /\ closes' = [closes EXCEPT !.Clean = @ + 1]
    /\ UNCHANGED <<imports, importFuncs, importObject, results>>

\* ------------------------------------------------------------ specification
Slots == {1}

Next ==
    \/ NewImportObject
    \/ NewInstance
    \/ NewInstanceWithImports
    \/ NewMeteredInstanceWithImports
    \/ NewMeteredInstanceWithImportObject
    \/ \E i \in Slots, name \in ExportNames : ExportedCall(i, name)
    \/ \E i \in Slots : HasMemoryCall(i)
    \/ \E i \in Slots, data \in ContextPointers : SetContextData(i, data)
    \/ \E i \in Slots : GetPointsUsed(i)
    \/ \E i \in Slots, points \in Points : SetPointsUsed(i, points)
    \/ \E i \in Slots : Close(i)
    \/ \E i \in Slots : Clean(i)

Spec == Init /\ [][Next]_vars

\* The same program started with a registry that holds no import function.
InitBridge == Init /\ imports = <<>>

SpecBridge == InitBridge /\ [][Next]_vars

\* Construction and release only: the constructors and the methods that read or
\* release what they returned.
NextLife ==
    \/ NewImportObject
    \/ NewInstance
    \/ NewInstanceWithImports
    \/ NewMeteredInstanceWithImports
    \/ NewMeteredInstanceWithImportObject
    \/ \E i \in Slots : HasMemoryCall(i)
    \/ \E i \in Slots : Close(i)
    \/ \E i \in Slots : Clean(i)

SpecLife == Init /\ [][NextLife]_vars

\* ------------------------------------------------------------------ claims
Maximum(S) == CHOOSE m \in S : \A n \in S : n <= m

Constructed(i) == HasReturned(i) /\ results[i].err = NoError

Failed(i) == HasReturned(i) /\ results[i].err # NoError

ExportTableOf(i) == engine[results[i].c_instance].table

PositionsOfKind(table, kind) == {nth \in 1..Len(table) : table[nth].kind = kind}

PositionsOfFunction(table, name) ==
    {nth \in PositionsOfKind(table, cWasmFunction) : table[nth].name = name}

InstantiatingConstructors ==
    {"NewInstanceWithImports", "NewMeteredInstanceWithImports",
     "NewMeteredInstanceWithImportObject"}

\* The arguments of the last exported call fail validation against the wrapper
\* that was called: wrong count, or an argument that does not convert.
LastWrapper == results[last.inst].instance.Exports.map[last.name]

LastArgumentsInvalid ==
    \/ Len(last.args) # Len(LastWrapper.wasmFunctionInputSignatures)
    \/ \E nth \in 1..Len(last.args) :
           /\ nth <= Len(LastWrapper.wasmFunctionInputSignatures)
           /\ KindOfHostType(last.args[nth]) # LastWrapper.wasmFunctionInputSignatures[nth]

\* C1: Close is idempotent: a Close() that follows an earlier Close() of the same
\* Instance, and a Close() of an Instance whose engine handle and imports are
\* nil, calls the engine's destroy primitive zero times and releases no import
\* handle, so the engine handle is destroyed by Close at most once.
C1_CloseIdempotent ==
    (last.op = "Close" /\ (closes.Close >= 2 \/ results[last.inst].instance = emptyInstance))
        => (last.destroyCalls = 0 /\ last.importReleases = 0)

\* C2: Close() of an Instance built by NewMeteredInstanceWithImportObject releases
\* none of the import function handles of the shared ImportObject: after it they
\* are all still live.
C2_CloseKeepsSharedImports ==
    (last.op = "Close" /\ results[last.inst].ctor = "NewMeteredInstanceWithImportObject")
        => /\ last.importReleases = 0
           /\ \A h \in importObject.funcs : importFuncs[h].destroys = 0

\* C3: for module bytes the engine rejects, of any length including zero, each of
\* the three instantiating constructors returns (does not fault) an InstanceError
\* whose text is the fixed prefix followed by the engine's last-error string, or
\* by "(unknown details)" when there is none.
C3_RejectedModuleReturnsInstanceError ==
    \A i \in 1..Len(results) :
        (results[i].ctor \in InstantiatingConstructors /\ results[i].status # cWasmerOk)
            => /\ results[i].outcome = "returned"
               /\ results[i].err.type = "InstanceError"
               /\ ErrorText(results[i].err) =
                      <<"Failed to instantiate the module:\n    ",
                        IF results[i].lastError.err THEN "(unknown details)"
                        ELSE results[i].lastError.text>>

\* C4: an exported call whose argument count differs from the declared input
\* arity, or one of whose arguments does not convert to the kind declared at its
\* position, returns the void Value with an error and makes no engine call (and
\* converts no output).
C4_NoEngineCallOnInvalidArguments ==
    (last.op = "ExportedCall" /\ LastArgumentsInvalid)
        => /\ last.engineCalled = FALSE
           /\ last.converted = FALSE
           /\ last.value = void
           /\ last.err # NoError

C4_Witness ==
    /\ last.op = "ExportedCall"
    /\ Len(last.args) = Len(LastWrapper.wasmFunctionInputSignatures)
    /\ LastArgumentsInvalid
    /\ last.engineCalled = FALSE

\* C5: a constructed Instance has a Memory exactly when the engine's export table
\* holds a memory export, HasMemory() answers accordingly, and the Memory wraps
\* the handle of the last memory export of the table.
C5_MemoryIsLastMemoryExport ==
    \A i \in 1..Len(results) :
        Constructed(i) =>
            LET memories == PositionsOfKind(ExportTableOf(i), cWasmMemory)
            IN  /\ HasMemory(results[i].instance) <=> memories # {}
                /\ memories # {} => results[i].instance.Memory = newMemory(Maximum(memories))
                /\ (last.op = "HasMemory" /\ last.inst = i)
                       => (last.answer = 1 <=> memories # {})

C5_Witness ==
    /\ Constructed(1)
    /\ Cardinality(PositionsOfKind(ExportTableOf(1), cWasmMemory)) >= 2
    /\ last.op = "HasMemory"
    /\ last.answer = 1

\* C6: however often the Imports registry is materialized, the engine creates one
\* function handle per ImportFunction, and every handle that was created and not
\* destroyed is the one cached on its ImportFunction.
C6_HandleCreatedOncePerImportFunction ==
    /\ Len(importFuncs) <= Len(imports)
    /\ \A h \in 1..Len(importFuncs) :
           importFuncs[h].destroys = 0 => \E k \in 1..Len(imports) : imports[k] = h

\* C7: an exported call that passes validation and coercion and whose engine call
\* reports a status other than OK returns the void Value and an
\* ExportedFunctionError whose text is "Failed to call the `<name>` exported
\* function.", and converts no engine output.
C7_EngineFailureIsGenericError ==
    (last.op = "ExportedCall" /\ ~LastArgumentsInvalid /\ last.status = cWasmerError)
        => /\ last.value = void
           /\ last.err.type = "ExportedFunctionError"
           /\ ErrorText(last.err) =
                  <<"Failed to call the ", Backquote, last.name, Backquote, " exported function.">>
           /\ last.converted = FALSE

C7_Witness ==
    /\ last.op = "ExportedCall"
    /\ last.engineCalled
    /\ last.status = cWasmerError
    /\ engine[results[last.inst].c_instance].metered

\* C8: the keys of Exports of a constructed Instance are exactly the names of the
\* function exports of the engine's table, each key bound to the wrapper of the
\* last function export of that name; and once the constructor has returned, no
\* operation changes the Exports map or the Memory field.
C8_ExportKeys ==
    \A i \in 1..Len(results) :
        Constructed(i) =>
            LET table == ExportTableOf(i)
                exports == results[i].instance.Exports
            IN  /\ exports.isNil = FALSE
                /\ DOMAIN exports.map =
                       {table[nth].name : nth \in PositionsOfKind(table, cWasmFunction)}
                /\ \A name \in DOMAIN exports.map :
                       /\ exports.map[name].wasmFunction =
                              Maximum(PositionsOfFunction(table, name))
                       /\ exports.map[name].exportedFunctionName = name

C8_ExportsFixed ==
    \A i \in 1..Len(results) :
        /\ results'[i].instance.Exports = results[i].instance.Exports
        /\ results'[i].instance.Memory = results[i].instance.Memory

C8_ExportsAreFunctionNamesAndNeverChange == [](C8_ExportKeys) /\ [][C8_ExportsFixed]_vars

C8_Witness ==
    /\ Constructed(1)
    /\ \E name \in ExportNames : Cardinality(PositionsOfFunction(ExportTableOf(1), name)) >= 2
    /\ last.op = "Close"

\* C9: when the engine instantiated the module and the post-instantiation step
\* failed, the engine instance handle has been destroyed when the constructor
\* returns its error; and the export table handle of every instantiation is
\* destroyed exactly once.
C9_NoHandleLeftOnErrorPath ==
    /\ \A h \in 1..Len(engine) : engine[h].exportsDestroys = 1
    /\ \A i \in 1..Len(results) :
           (Failed(i) /\ results[i].c_instance # NULL)
               => engine[results[i].c_instance].destroys >= 1

\* C10: a constructor returns either no error and an Instance with a non-nil
\* engine handle and a non-nil Exports map, or an error and the empty Instance;
\* on an Instance returned with an error HasMemory() is false and Close() makes
\* no destroy call and releases no import handle.
C10_ErrorOrInstance ==
    \A i \in 1..Len(results) :
        HasReturned(i) =>
            /\ \/ /\ results[i].err = NoError
                  /\ results[i].instance.instance # NULL
                  /\ results[i].instance.Exports.isNil = FALSE
               \/ /\ results[i].err # NoError
                  /\ results[i].instance = emptyInstance
            /\ Failed(i) =>
                   /\ ~HasMemory(results[i].instance)
                   /\ (last.op = "HasMemory" /\ last.inst = i) => last.answer = 0
                   /\ (last.op = "Close" /\ last.inst = i)
                          => (last.destroyCalls = 0 /\ last.importReleases = 0)

C10_Witness ==
    /\ Failed(1)
    /\ results[1].c_instance # NULL
    /\ Len(imports) > 0
    /\ \E k \in 1..Len(imports) : imports[k] # NULL
    /\ last.op = "Close"

====
